---- MODULE Spec2Model ----
(***************************************************************************)
(* A model of lassl's data collators (src/src/lassl/collators.py):         *)
(*   - DataCollatorForT5: _random_spans_noise_mask,                        *)
(*     _noise_span_to_unique_sentinel and __call__ (span corruption);      *)
(*   - DataCollatorForBert / DataCollatorForAlbert: the sentence-order     *)
(*     split of _prepare_wwm_and_sop_from_examples and                     *)
(*     _prepare_sop_from_examples;                                         *)
(*   - DataCollatorForElectra._generate_fake_inputs and its rejection      *)
(*     sampler _fake_input_id;                                             *)
(*   - DataCollatorForBart._infilling.                                     *)
(* Each collator has its own specification; the variables of the other     *)
(* collators stay at their idle values.  Random draws of the code          *)
(* (random.randrange, random.random, random.randint, torch.randperm,       *)
(* torch.randint, Poisson.sample) are nondeterministic choices.            *)
(* Floats: noise_density, mean_span_length and mlm_probability are         *)
(* rationals <<numerator, denominator>>; Python's round() is               *)
(* round-half-to-even and int() truncates.                                 *)
(***************************************************************************)
EXTENDS Integers, Sequences, FiniteSets, TLC

VARIABLES
    \* ---- DataCollatorForT5 ----
    t5_pc,              \* position inside __call__
    examples,           \* the batch: a sequence of token-id sequences
    noise_density,      \* self.noise_density, <<num, den>>
    mean_span_length,   \* self.mean_span_length, <<num, den>>
    noise_masks,        \* line 321
    inputs,             \* line 322
    targets,            \* line 326
    \* ---- DataCollatorForBert / DataCollatorForAlbert (sentence order) ----
    sop_pc,
    sop_collator,       \* "Bert" or "Albert"
    sop_examples,       \* the chunks still to be split
    chunk_ids,          \* the chunk of the current iteration
    split_position,
    reverse,
    token_a,
    token_b,
    output_examples,
    \* ---- DataCollatorForElectra ----
    el_pc,
    vocab_size,         \* self.tokenizer.vocab_size
    input_ids,          \* line 386; emptied by curr_ids.pop(0)
    prepared_ids,       \* history: input_ids as line 386 built them
    masked_boolean,     \* line 388; emptied by curr_masked.pop(0)
    labels,             \* line 389
    idx,                \* loop index of line 399
    fake_input_ids,     \* line 400
    original_id,        \* argument of _fake_input_id
    fake_id,            \* local of _fake_input_id
    generated_input_ids_seqs,
    \* ---- DataCollatorForBart ----
    bart_pc,
    bart_examples,      \* the examples still to be infilled
    mlm_probability,    \* <<num, den>>
    source_tokens_ids,
    source_tokens_ids_length,
    masking_length,
    masked_length,
    span_length,
    start_index,
    prev_tokens_ids,    \* history: source_tokens_ids before the last iteration
    zero_spans,         \* history: iterations that sampled span_length 0
    buffer

t5_vars == <<t5_pc, examples, noise_density, mean_span_length, noise_masks, inputs, targets>>
sop_vars == <<sop_pc, sop_collator, sop_examples, chunk_ids, split_position, reverse,
              token_a, token_b, output_examples>>
el_vars == <<el_pc, vocab_size, input_ids, prepared_ids, masked_boolean, labels, idx,
             fake_input_ids, original_id, fake_id, generated_input_ids_seqs>>
bart_vars == <<bart_pc, bart_examples, mlm_probability, source_tokens_ids,
               source_tokens_ids_length, masking_length, masked_length, span_length,
               start_index, prev_tokens_ids, zero_spans, buffer>>
vars == <<t5_vars, sop_vars, el_vars, bart_vars>>

(***************************************************************************)
(* Bounds of the model.                                                    *)
(***************************************************************************)
MaxLen == 6          \* longest T5 example handed to the span planner
MaxBatch == 2        \* most examples in one T5 batch
MaxMaskLen == 4      \* longest sequence handed to the sentinel encoder alone
MaxChunk == 6        \* longest chunk handed to the sentence-order split
MaxSopBatch == 2     \* most chunks in one Bert / Albert batch
MaxVocab == 6        \* largest vocab_size of the Electra tokenizer
MaxElLen == 1        \* longest Electra example (before [CLS] and [SEP])
MaxBartLen == 3      \* longest Bart example
MaxPoisson == 2      \* largest value drawn from the Poisson distribution
MaxZeroSpans == 1    \* most draws of span length 0 followed per example

(***************************************************************************)
(* Generic helpers: Python / torch primitives.                             *)
(***************************************************************************)
Min(a, b) == IF a < b THEN a ELSE b
Max(a, b) == IF a > b THEN a ELSE b

\* Python round(p / q) for p >= 0, q > 0: round half to even.
Round(p, q) ==
    LET f == p \div q
        r == p % q
    IN  IF 2 * r < q THEN f
        ELSE IF 2 * r > q THEN f + 1
        ELSE IF f % 2 = 0 THEN f ELSE f + 1

\* Python slices s[:n] and s[n:] (0-based bound n, clipped to the sequence).
Take(s, n) == SubSeq(s, 1, Min(Max(n, 0), Len(s)))
Drop(s, n) == SubSeq(s, Min(Max(n, 0), Len(s)) + 1, Len(s))

\* torch.cumsum over a sequence of integers.
RECURSIVE SumTo(_, _)
SumTo(s, n) == IF n = 0 THEN 0 ELSE SumTo(s, n - 1) + s[n]
CumSum(s) == [i \in 1..Len(s) |-> SumTo(s, i)]

\* bool -> 0/1 (tensor.long()).
Long(b) == IF b THEN 1 ELSE 0

\* torch.masked_select(s, keep)
RECURSIVE MaskedSelect(_, _)
MaskedSelect(s, keep) ==
    IF s = <<>> THEN <<>>
    ELSE (IF Head(keep) THEN <<Head(s)>> ELSE <<>>) \o MaskedSelect(Tail(s), Tail(keep))

CountTrue(m) == Cardinality({i \in DOMAIN m : m[i]})

\* All boolean sequences of length n.
BoolSeqs(n) == [1..n -> BOOLEAN]

(***************************************************************************)
(* DataCollatorForT5                                                       *)
(***************************************************************************)
\* Tokenizer values (a T5 vocabulary keeps <extra_id_0> as its highest id).
ExtraId0 == 200      \* self.tokenizer.get_vocab()["<extra_id_0>"]
EosTokenId == 1      \* self.tokenizer.eos_token_id
TokenBase == 10      \* ordinary token ids of the modelled examples start here

\* line 275-276
NumNoiseTokens(length, d) ==
    Min(Max(Round(d[1] * length, d[2]), 1), length - 1)

\* line 277-278: round(num_noise_tokens / mean_span_length), at least 1
NumNoiseSpans(num_noise_tokens, m) ==
    Max(Round(num_noise_tokens * m[2], m[1]), 1)

\* line 283: bars = torch.arange(num_items - 1) < num_segments - 1
Bars(num_items, num_segments) ==
    [i \in 1..(num_items - 1) |-> (i - 1) < num_segments - 1]

\* line 284: bars[torch.randperm(bars.size(0))]: every rearrangement of bars.
Shuffles(bars) ==
    {b \in BoolSeqs(Len(bars)) : CountTrue(b) = CountTrue(bars)}

\* line 285-290: segment lengths from the shuffled bars.
SegmentLength(shuffled, num_segments) ==
    LET bars == <<0>> \o [i \in 1..Len(shuffled) |-> Long(shuffled[i])]
        segment_id == CumSum(bars)
    IN  [k \in 1..num_segments |->
            Cardinality({i \in DOMAIN segment_id : segment_id[i] = k - 1})]

\* line 294: torch.stack((nonnoise, noise), dim=1).reshape(-1)
Interleave(nonnoise, noise) ==
    [i \in 1..(2 * Len(noise)) |->
        IF i % 2 = 1 THEN nonnoise[(i + 1) \div 2] ELSE noise[i \div 2]]

\* line 295-299, given the two segmentations.  scatter raises when an index
\* is outside zeros(length).
MaskFromSegments(orig_len, length, nonnoise_span_lengths, noise_span_lengths) ==
    LET interleaved == Interleave(nonnoise_span_lengths, noise_span_lengths)
        cum == CumSum(interleaved)
        span_starts == SubSeq(cum, 1, Len(cum) - 1)
        starts == {span_starts[i] : i \in DOMAIN span_starts}
        span_start_indicator == [p \in 1..length |-> Long((p - 1) \in starts)]
        span_num == CumSum(span_start_indicator)
        is_noise == [p \in 1..length |-> span_num[p] % 2 = 1]
    IN  IF \E s \in starts : s >= length
        THEN [raised |-> TRUE, mask |-> <<>>]
        ELSE [raised |-> FALSE, mask |-> Take(is_noise, orig_len)]

\* line 271-299: the set of results _random_spans_noise_mask(length) can have.
RandomSpansNoiseMask(orig_len, d, m) ==
    LET length == Max(orig_len, 2)
        num_noise_tokens == NumNoiseTokens(length, d)
        num_noise_spans == NumNoiseSpans(num_noise_tokens, m)
        num_nonnoise_tokens == length - num_noise_tokens
    IN  {MaskFromSegments(orig_len, length,
                          SegmentLength(nb, num_noise_spans),
                          SegmentLength(b, num_noise_spans)) :
            b \in Shuffles(Bars(num_noise_tokens, num_noise_spans)),
            nb \in Shuffles(Bars(num_nonnoise_tokens, num_noise_spans))}

\* line 305
PrevTokenIsNoise(noise_mask) ==
    [i \in 1..Len(noise_mask) |-> IF i = 1 THEN FALSE ELSE noise_mask[i - 1]]

\* line 306
FirstNoiseTokens(noise_mask) ==
    [i \in 1..Len(noise_mask) |-> noise_mask[i] /\ ~PrevTokenIsNoise(noise_mask)[i]]

\* Mutant of SubsequentNoiseTokens: no noise token is dropped.
SubsequentNoiseTokensNone(noise_mask) ==
    [i \in 1..Len(noise_mask) |-> FALSE]

\* line 307
SubsequentNoiseTokens(noise_mask) ==
    [i \in 1..Len(noise_mask) |-> noise_mask[i] /\ PrevTokenIsNoise(noise_mask)[i]]

\* Mutant of Sentinel: the cumulative count of span starts is left out.
SentinelNotCounting(noise_mask) ==
    [i \in 1..Len(noise_mask) |-> ExtraId0]

\* line 308
Sentinel(noise_mask) ==
    LET c == CumSum([i \in 1..Len(noise_mask) |-> Long(FirstNoiseTokens(noise_mask)[i])])
    IN  [i \in 1..Len(noise_mask) |-> ExtraId0 + 1 - c[i]]

SeqMin(s) == CHOOSE x \in {s[i] : i \in DOMAIN s} : \A i \in DOMAIN s : x <= s[i]

\* line 301-315, for a non-empty token sequence (sentinel.min() of an empty
\* tensor raises, see EncodeTargets).
NoiseSpanToUniqueSentinel(tokens, noise_mask, append_last_sentinel) ==
    LET first_noise_tokens == FirstNoiseTokens(noise_mask)
        subsequent_noise_tokens == SubsequentNoiseTokens(noise_mask)
        sentinel == Sentinel(noise_mask)
        replaced == [i \in 1..Len(tokens) |->
                        IF first_noise_tokens[i] THEN sentinel[i] ELSE tokens[i]]
        ret == MaskedSelect(replaced,
                            [i \in 1..Len(tokens) |-> ~subsequent_noise_tokens[i]])
        last == IF append_last_sentinel THEN <<SeqMin(sentinel) - 1>> ELSE <<>>
    IN  ret \o last \o <<EosTokenId>>

\* ~noise_mask
Complement(noise_mask) == [i \in 1..Len(noise_mask) |-> ~noise_mask[i]]

\* The configurations tried: noise_density and mean_span_length as exact
\* rationals (the default 0.15 / 3.0 among them).
Densities == {<<3, 20>>, <<1, 4>>, <<1, 2>>, <<3, 4>>}
MeanSpanLengths == {<<1, 2>>, <<1, 1>>, <<2, 1>>, <<3, 1>>}

\* A batch of n examples of length len with pairwise distinct ordinary ids.
Batch(n, len) == [i \in 1..n |-> [j \in 1..len |-> TokenBase + 10 * (i - 1) + j]]

\* Ordinary ids of the sequences handed to the encoder alone.
TokenSet == {TokenBase, TokenBase + 1}

T5Idle ==
    /\ t5_pc = "idle" /\ examples = <<>> /\ noise_density = <<3, 20>>
    /\ mean_span_length = <<3, 1>> /\ noise_masks = <<>> /\ inputs = <<>>
    /\ targets = <<>>

\* __call__ entered (line 317-320) with any configuration of the collator.
T5Init ==
    /\ t5_pc = "masks"
    /\ \E n \in 1..MaxBatch, len \in 0..MaxLen : examples = Batch(n, len)
    /\ noise_density \in Densities
    /\ mean_span_length \in MeanSpanLengths
    /\ noise_masks = <<>> /\ inputs = <<>> /\ targets = <<>>

\* The encoder on its own: any token sequence with any noise mask, at the
\* point of __call__ where the masks exist (line 322).
SentinelInit ==
    /\ t5_pc = "inputs"
    /\ \E len \in 0..MaxMaskLen :
         /\ examples \in {<<t>> : t \in [1..len -> TokenSet]}
         /\ noise_masks \in {<<m>> : m \in BoolSeqs(len)}
    /\ noise_density = <<3, 20>> /\ mean_span_length = <<3, 1>>
    /\ inputs = <<>> /\ targets = <<>>

\* line 321: one call of _random_spans_noise_mask(example_len).
PlanNoiseMask ==
    /\ t5_pc = "masks"
    /\ \E r \in RandomSpansNoiseMask(Len(examples[1]), noise_density, mean_span_length) :
         IF r.raised
         THEN /\ t5_pc' = "RuntimeError"
              /\ UNCHANGED noise_masks
         ELSE /\ noise_masks' = Append(noise_masks, r.mask)
              /\ t5_pc' = IF Len(noise_masks) + 1 = Len(examples) THEN "inputs" ELSE "masks"
    /\ UNCHANGED <<examples, noise_density, mean_span_length, inputs, targets>>
    /\ UNCHANGED <<sop_vars, el_vars, bart_vars>>

\* line 322-325
EncodeInputs ==
    /\ t5_pc = "inputs"
    /\ inputs' = [i \in 1..Len(examples) |->
                    NoiseSpanToUniqueSentinel(examples[i], noise_masks[i], FALSE)]
    /\ t5_pc' = "targets"
    /\ UNCHANGED <<examples, noise_density, mean_span_length, noise_masks, targets>>
    /\ UNCHANGED <<sop_vars, el_vars, bart_vars>>

\* line 326-329; sentinel.min() (line 312) raises on an empty tensor.  The
\* rest of __call__ (line 331-350) pads and shifts inputs and targets into
\* the batch tensors and changes neither.
EncodeTargets ==
    /\ t5_pc = "targets"
    /\ IF \E i \in 1..Len(examples) : examples[i] = <<>>
       THEN /\ t5_pc' = "RuntimeError"
            /\ UNCHANGED targets
       ELSE /\ targets' = [i \in 1..Len(examples) |->
                             NoiseSpanToUniqueSentinel(examples[i],
                                                       Complement(noise_masks[i]), TRUE)]
            /\ t5_pc' = "done"
    /\ UNCHANGED <<examples, noise_density, mean_span_length, noise_masks, inputs>>
    /\ UNCHANGED <<sop_vars, el_vars, bart_vars>>

(***************************************************************************)
(* Idle values of the other collators.                                     *)
(***************************************************************************)
SopIdle ==
    /\ sop_pc = "idle" /\ sop_collator = "Bert" /\ sop_examples = <<>>
    /\ chunk_ids = <<>> /\ split_position = 0 /\ reverse = FALSE
    /\ token_a = <<>> /\ token_b = <<>> /\ output_examples = <<>>

ElIdle ==
    /\ el_pc = "idle" /\ vocab_size = 0 /\ input_ids = <<>> /\ prepared_ids = <<>>
    /\ masked_boolean = <<>> /\ labels = <<>> /\ idx = 0 /\ fake_input_ids = <<>>
    /\ original_id = 0 /\ fake_id = 0 /\ generated_input_ids_seqs = <<>>

BartIdle ==
    /\ bart_pc = "idle" /\ bart_examples = <<>> /\ mlm_probability = <<0, 1>>
    /\ source_tokens_ids = <<>> /\ source_tokens_ids_length = 0
    /\ masking_length = 0 /\ masked_length = 0 /\ span_length = 0
    /\ start_index = 0 /\ prev_tokens_ids = <<>> /\ zero_spans = 0 /\ buffer = <<>>

(***************************************************************************)
(* Specifications.                                                         *)
(***************************************************************************)
\* DataCollatorForT5.__call__ with the masks of the span planner.
NextT5 == PlanNoiseMask \/ EncodeInputs \/ EncodeTargets
InitT5 == T5Init /\ SopIdle /\ ElIdle /\ BartIdle
SpecT5 == InitT5 /\ [][NextT5]_vars

\* The sentinel encoder with any mask.
NextSentinel == EncodeInputs \/ EncodeTargets
InitSentinel == SentinelInit /\ SopIdle /\ ElIdle /\ BartIdle
SpecSentinel == InitSentinel /\ [][NextSentinel]_vars

(***************************************************************************)
(* Vocabulary of the claims about the T5 collator.                         *)
(***************************************************************************)
\* The ids <extra_id_0>, <extra_id_1>, ... count down from ExtraId0; every
\* ordinary id of the model lies below them.
SentinelIds == (ExtraId0 - 99)..ExtraId0
IsSentinel(x) == x \in SentinelIds

\* The positions of the sentinels of s, in increasing order.
SentinelPositions(s) ==
    SelectSeq([i \in 1..Len(s) |-> i], LAMBDA i : IsSentinel(s[i]))

\* The sentinels of s in order of appearance.
Sentinels(s) == SelectSeq(s, IsSentinel)

StrictlyDecreasing(s) == \A i \in 1..(Len(s) - 1) : s[i] > s[i + 1]

\* Last positions of the maximal runs of TRUE in a mask.
RunEnds(mask) ==
    {i \in DOMAIN mask : mask[i] /\ (i = Len(mask) \/ ~mask[i + 1])}
NumRuns(mask) == Cardinality(RunEnds(mask))

\* First positions of the maximal runs of TRUE, in increasing order.
RunStartSeq(mask) ==
    SelectSeq([i \in 1..Len(mask) |-> i],
              LAMBDA i : mask[i] /\ (i = 1 \/ ~mask[i - 1]))

\* The tokens under the j-th maximal run of TRUE of the mask.
RunTokens(tokens, mask, j) ==
    LET first == RunStartSeq(mask)[j]
        last == CHOOSE e \in RunEnds(mask) :
                    e >= first /\ \A f \in RunEnds(mask) : f >= first => e <= f
    IN  SubSeq(tokens, first, last)

\* s without its final element (the eos) and without its sentinels.
StripSentinels(s) ==
    SelectSeq(SubSeq(s, 1, Len(s) - 1), LAMBDA x : ~IsSentinel(x))

ExampleLen == Len(examples[1])

(***************************************************************************)
(* C1: for every L >= 2, every noise density and every mean span length,   *)
(* the span planner returns a mask of exactly L positions whose number of  *)
(* noise positions is round(d * L) clamped to [1, L - 1].                  *)
(***************************************************************************)
C1_NoiseCountIsClampedRound ==
    ExampleLen >= 2 =>
        \A i \in DOMAIN noise_masks :
             /\ Len(noise_masks[i]) = ExampleLen
             /\ CountTrue(noise_masks[i]) =
                  Min(Max(Round(noise_density[1] * ExampleLen, noise_density[2]), 1),
                      ExampleLen - 1)

(***************************************************************************)
(* C2: for every L >= 2, the number of maximal noise runs of the planned   *)
(* mask is max(1, round(round(d * L) / m)).  Stated for the lengths and    *)
(* densities whose round(d * L) already lies in [1, L - 1], where the      *)
(* clamp of line 276 changes nothing.                                      *)
(***************************************************************************)
C2_RunCountIsRoundedQuotient ==
    LET rounded == Round(noise_density[1] * ExampleLen, noise_density[2])
    IN  (ExampleLen >= 2 /\ 1 <= rounded /\ rounded <= ExampleLen - 1) =>
            \A i \in DOMAIN noise_masks :
                NumRuns(noise_masks[i]) =
                    Max(1, Round(rounded * mean_span_length[2], mean_span_length[1]))

(***************************************************************************)
(* C8: called with length 1 the span planner fails with an                 *)
(* InvalidExampleError and never returns a mask without a noise position.  *)
(***************************************************************************)
C8_LengthOneIsRejected ==
    ExampleLen = 1 =>
        /\ noise_masks = <<>>
        /\ t5_pc \notin {"inputs", "targets", "done"}

\* The encoded input and target of one example line up sentinel by sentinel.
Aligned(tokens, mask, inp, tgt) ==
    LET sIn == SentinelPositions(inp)
        sTg == SentinelPositions(tgt)
        k == Len(sIn)
    IN  /\ Len(sTg) = k + 1
        /\ NumRuns(mask) = k
        /\ \A j \in 1..k :
             /\ tgt[sTg[j]] = inp[sIn[j]]
             /\ SubSeq(tgt, sTg[j] + 1, sTg[j + 1] - 1) = RunTokens(tokens, mask, j)
        /\ sTg[k + 1] + 1 = Len(tgt)
        /\ tgt[Len(tgt)] = EosTokenId

(***************************************************************************)
(* C9: input/target alignment of the span-corruption collator.  An input   *)
(* with k sentinels has a target with k + 1; the j-th sentinel of the      *)
(* target is the j-th of the input and is followed in the target by        *)
(* exactly the tokens it replaced in the input; the last target sentinel   *)
(* is followed by the eos; all inputs of the batch have one length and all *)
(* targets have one length.                                                *)
(***************************************************************************)
C9_InputTargetAligned ==
    t5_pc = "done" =>
        /\ \A i \in DOMAIN examples :
             Aligned(examples[i], noise_masks[i], inputs[i], targets[i])
        /\ \A i, j \in DOMAIN examples :
             /\ Len(inputs[i]) = Len(inputs[j])
             /\ Len(targets[i]) = Len(targets[j])

(***************************************************************************)
(* Where the planner can keep its segments non-empty (the number of spans  *)
(* fits both the noise and the non-noise tokens, and the length is at      *)
(* least 2), the statements of C1, C2 (with the clamped count) and C9      *)
(* hold.                                                                   *)
(***************************************************************************)
PlannerInContract ==
    LET n == NumNoiseTokens(Max(ExampleLen, 2), noise_density)
        s == NumNoiseSpans(n, mean_span_length)
    IN  ExampleLen >= 2 /\ s <= n /\ s <= ExampleLen - n

InContract_NoiseCount ==
    PlannerInContract => (t5_pc # "RuntimeError" /\ C1_NoiseCountIsClampedRound)

InContract_RunCount ==
    PlannerInContract =>
        \A i \in DOMAIN noise_masks :
            NumRuns(noise_masks[i]) =
                NumNoiseSpans(NumNoiseTokens(ExampleLen, noise_density), mean_span_length)

InContract_Aligned == PlannerInContract => C9_InputTargetAligned

\* The sentinels of one encoded sequence, given the mask it was encoded with.
SentinelsWellFormed(out, mask, appended) ==
    LET sent == Sentinels(out)
        runs == NumRuns(mask)
        n == Len(out)
    IN  /\ StrictlyDecreasing(sent)
        /\ Len(sent) = runs + Long(appended)
        /\ \A j \in 1..runs : sent[j] = ExtraId0 - (j - 1)
        /\ out[n] = EosTokenId
        /\ appended =>
             /\ IsSentinel(out[n - 1])
             /\ out[n - 1] = sent[Len(sent)]
             /\ runs >= 1 => out[n - 1] = sent[runs] - 1

(***************************************************************************)
(* C3: in every sequence the sentinel encoder produces, the sentinel ids   *)
(* are strictly decreasing in order of appearance, one sentinel stands for *)
(* each maximal noise run, and with append_last_sentinel the appended      *)
(* sentinel is one less than the smallest sentinel of a run and sits       *)
(* immediately before the eos.                                             *)
(***************************************************************************)
C3_SentinelsStrictlyDecreasing ==
    /\ t5_pc \in {"targets", "done"} =>
         \A i \in DOMAIN inputs :
            SentinelsWellFormed(inputs[i], noise_masks[i], FALSE)
    /\ t5_pc = "done" =>
         \A i \in DOMAIN targets :
            SentinelsWellFormed(targets[i], Complement(noise_masks[i]), TRUE)

\* An input with two sentinels whose target carries three.
C3_Witness ==
    /\ t5_pc = "done"
    /\ Len(Sentinels(inputs[1])) = 2
    /\ Len(Sentinels(targets[1])) = 3

(***************************************************************************)
(* C4: round trip.  Without its sentinels and its eos the encoded input is *)
(* the tokens at the non-noise positions in order, and the encoded target  *)
(* (complement mask, append_last_sentinel) is the tokens at the noise      *)
(* positions in order: together each original token exactly once.          *)
(***************************************************************************)
C4_RoundTrip ==
    t5_pc = "done" =>
        \A i \in DOMAIN examples :
            /\ StripSentinels(inputs[i]) =
                  MaskedSelect(examples[i], Complement(noise_masks[i]))
            /\ StripSentinels(targets[i]) = MaskedSelect(examples[i], noise_masks[i])
            /\ Len(StripSentinels(inputs[i])) + Len(StripSentinels(targets[i]))
                  = Len(examples[i])

\* A mask with a noise run of two tokens between non-noise tokens.
C4_Witness ==
    /\ t5_pc = "done"
    /\ Len(examples[1]) = 4
    /\ noise_masks[1] = <<FALSE, TRUE, TRUE, FALSE>>
    /\ examples[1][2] # examples[1][3]

(***************************************************************************)
(* DataCollatorForBert / DataCollatorForAlbert: the sentence-order split   *)
(***************************************************************************)
\* Tokenizer values of a BERT-style vocabulary.
PadTokenId == 0      \* self.tokenizer.pad_token_id
ClsTokenId == 1      \* prepended by build_inputs_with_special_tokens
SepTokenId == 2      \* self.tokenizer.sep_token_id
MaskTokenId == 3     \* self.tokenizer.mask_token_id

\* A chunk of length len with pairwise distinct ordinary ids.
Chunk(len) == [j \in 1..len |-> TokenBase + j]

\* Mutant of SplitEnd: two thirds of the length, rounded down.
SplitEndTwoThirds(seq_length) == (2 * seq_length) \div 3

\* line 73 / 131: start, end = seq_length // 3, seq_length // 3 * 2
SplitStart(seq_length) == seq_length \div 3
SplitEnd(seq_length) == (seq_length \div 3) * 2

\* random.randrange(start, end): the values it can return (none: ValueError).
RandRange(start, end) == start..(end - 1)

\* tokenizer.build_inputs_with_special_tokens(token_a, token_b)
BuildInputsWithSpecialTokens(a, b) ==
    <<ClsTokenId>> \o a \o <<SepTokenId>> \o b \o <<SepTokenId>>

\* tokenizer.create_token_type_ids_from_sequences(token_a, token_b)
CreateTokenTypeIds(a, b) ==
    [i \in 1..(Len(a) + 2) |-> 0] \o [i \in 1..(Len(b) + 1) |-> 1]

\* tokenizer.get_special_tokens_mask(ids, already_has_special_tokens=True)
GetSpecialTokensMask(ids) ==
    [i \in 1..Len(ids) |-> Long(ids[i] \in {ClsTokenId, SepTokenId})]

SopInit ==
    /\ sop_pc = "loop"
    /\ sop_collator \in {"Bert", "Albert"}
    /\ \E n \in 1..MaxSopBatch :
         sop_examples \in [1..n -> {Chunk(len) : len \in 0..MaxChunk}]
    /\ chunk_ids = <<>> /\ split_position = 0 /\ reverse = FALSE
    /\ token_a = <<>> /\ token_b = <<>> /\ output_examples = <<>>

\* line 70-97: one iteration of _prepare_wwm_and_sop_from_examples in which
\* randrange returns p and random.random() < 0.5 is r.  The mask_label of
\* line 88 is drawn by the transformers library from the built input and is
\* left out of the output record.
BertSplitAt(p, r) ==
    /\ sop_pc = "loop" /\ sop_collator = "Bert" /\ sop_examples # <<>>
    /\ LET chunk == Head(sop_examples)
           seq_length == Len(chunk)
           a == IF r THEN Drop(chunk, p) ELSE Take(chunk, p)
           b == IF r THEN Take(chunk, p) ELSE Drop(chunk, p)
       IN  /\ p \in RandRange(SplitStart(seq_length), SplitEnd(seq_length))
           /\ chunk_ids' = chunk
           /\ split_position' = p
           /\ reverse' = r
           /\ token_a' = a
           /\ token_b' = b
           /\ output_examples' = Append(output_examples,
                [input_ids |-> BuildInputsWithSpecialTokens(a, b),
                 token_type_ids |-> CreateTokenTypeIds(a, b),
                 next_sentence_label |-> IF r THEN 1 ELSE 0])
    /\ sop_examples' = Tail(sop_examples)
    /\ UNCHANGED <<sop_pc, sop_collator>>
    /\ UNCHANGED <<t5_vars, el_vars, bart_vars>>

\* line 128-154: one iteration of _prepare_sop_from_examples.
AlbertSplitAt(p, r) ==
    /\ sop_pc = "loop" /\ sop_collator = "Albert" /\ sop_examples # <<>>
    /\ LET chunk == Head(sop_examples)
           seq_length == Len(chunk)
           a == IF r THEN Drop(chunk, p) ELSE Take(chunk, p)
           b == IF r THEN Take(chunk, p) ELSE Drop(chunk, p)
       IN  /\ p \in RandRange(SplitStart(seq_length), SplitEnd(seq_length))
           /\ chunk_ids' = chunk
           /\ split_position' = p
           /\ reverse' = r
           /\ token_a' = a
           /\ token_b' = b
           /\ output_examples' = Append(output_examples,
                [input_ids |-> BuildInputsWithSpecialTokens(a, b),
                 token_type_ids |-> CreateTokenTypeIds(a, b),
                 special_tokens_mask |->
                    GetSpecialTokensMask(BuildInputsWithSpecialTokens(a, b)),
                 sentence_order_label |-> IF r THEN 1 ELSE 0])
    /\ sop_examples' = Tail(sop_examples)
    /\ UNCHANGED <<sop_pc, sop_collator>>
    /\ UNCHANGED <<t5_vars, el_vars, bart_vars>>

BertSplit == \E p \in 0..MaxChunk, r \in BOOLEAN : BertSplitAt(p, r)
AlbertSplit == \E p \in 0..MaxChunk, r \in BOOLEAN : AlbertSplitAt(p, r)

\* line 74 / 132: random.randrange raises ValueError on an empty range.
SplitRaises ==
    /\ sop_pc = "loop" /\ sop_examples # <<>>
    /\ LET seq_length == Len(Head(sop_examples))
       IN  RandRange(SplitStart(seq_length), SplitEnd(seq_length)) = {}
    /\ sop_pc' = "ValueError"
    /\ UNCHANGED <<sop_collator, sop_examples, chunk_ids, split_position, reverse,
                   token_a, token_b, output_examples>>
    /\ UNCHANGED <<t5_vars, el_vars, bart_vars>>

\* line 98 / 155: return output_examples
SopReturn ==
    /\ sop_pc = "loop" /\ sop_examples = <<>>
    /\ sop_pc' = "done"
    /\ UNCHANGED <<sop_collator, sop_examples, chunk_ids, split_position, reverse,
                   token_a, token_b, output_examples>>
    /\ UNCHANGED <<t5_vars, el_vars, bart_vars>>

NextSop == BertSplit \/ AlbertSplit \/ SplitRaises \/ SopReturn
InitSop == SopInit /\ T5Idle /\ ElIdle /\ BartIdle
SpecSop == InitSop /\ [][NextSop]_vars

\* The label of the last output example, whichever collator named it.
LastLabel ==
    LET e == output_examples[Len(output_examples)]
    IN  IF sop_collator = "Bert" THEN e.next_sentence_label ELSE e.sentence_order_label

\* The split of the current chunk can return pivot p with reversal r.
CanSplitAt(p, r) == (ENABLED BertSplitAt(p, r)) \/ (ENABLED AlbertSplitAt(p, r))

\* The last split is (chunk[:p], chunk[p:], 0) or (chunk[p:], chunk[:p], 1)
\* for its pivot p, the label being 1 exactly when the later part comes first.
LastSplitShape ==
    output_examples # <<>> =>
        LET p == split_position
        IN  /\ reverse => /\ token_a = Drop(chunk_ids, p)
                          /\ token_b = Take(chunk_ids, p)
                          /\ LastLabel = 1
            /\ ~reverse => /\ token_a = Take(chunk_ids, p)
                           /\ token_b = Drop(chunk_ids, p)
                           /\ LastLabel = 0
            /\ output_examples[Len(output_examples)].input_ids =
                  <<ClsTokenId>> \o token_a \o <<SepTokenId>> \o token_b \o <<SepTokenId>>

(***************************************************************************)
(* C5 as stated: for a chunk of length n the possible results of the split *)
(* are (chunk[:p], chunk[p:], 0) and (chunk[p:], chunk[:p], 1) for exactly *)
(* the pivots n // 3 <= p < 2 * n // 3.                                    *)
(***************************************************************************)
C5_PivotInMiddleThird ==
    /\ LastSplitShape
    /\ output_examples # <<>> =>
         /\ Len(chunk_ids) \div 3 <= split_position
         /\ split_position < (2 * Len(chunk_ids)) \div 3
    /\ (sop_pc = "loop" /\ sop_examples # <<>>) =>
         LET n == Len(Head(sop_examples))
         IN  \A p \in 0..MaxChunk, r \in BOOLEAN :
                CanSplitAt(p, r) <=> (n \div 3 <= p /\ p < (2 * n) \div 3)

(***************************************************************************)
(* C5 as amended: the same results for exactly the pivots                  *)
(* n // 3 <= p < (n // 3) * 2.                                             *)
(***************************************************************************)
C5_PivotInCodeRange ==
    /\ LastSplitShape
    /\ output_examples # <<>> =>
         /\ Len(chunk_ids) \div 3 <= split_position
         /\ split_position < (Len(chunk_ids) \div 3) * 2
    /\ (sop_pc = "loop" /\ sop_examples # <<>>) =>
         LET n == Len(Head(sop_examples))
         IN  \A p \in 0..MaxChunk, r \in BOOLEAN :
                CanSplitAt(p, r) <=> (n \div 3 <= p /\ p < (n \div 3) * 2)

\* A chunk of length 5 (where the two ranges differ) split with reversal.
C5_Witness ==
    /\ output_examples # <<>>
    /\ Len(chunk_ids) = 5
    /\ split_position = 1
    /\ reverse
    /\ token_a = <<TokenBase + 2, TokenBase + 3, TokenBase + 4, TokenBase + 5>>
    /\ token_b = <<TokenBase + 1>>

(***************************************************************************)
(* DataCollatorForElectra._generate_fake_inputs                            *)
(***************************************************************************)
PadToMultipleOf == 8 \* pad_to_multiple_of of __init__

\* self.tokenizer.all_special_ids
AllSpecialIds == {PadTokenId, ClsTokenId, SepTokenId, MaskTokenId}

\* The smallest vocabulary: the special ids and one ordinary id.
MinVocab == Cardinality(AllSpecialIds) + 1

\* The ordinary ids of a vocabulary of the given size.
OrdinaryIds(size) == {x \in 0..(size - 1) : x \notin AllSpecialIds}

\* tokenizer.prepare_for_model(example, padding=False)["input_ids"]
PrepareForModel(example) == <<ClsTokenId>> \o example \o <<SepTokenId>>

\* _torch_collate_batch pads every row to the longest one, rounded up to a
\* multiple of pad_to_multiple_of.
PaddedLen(seqs) ==
    LET longest == CHOOSE n \in {Len(seqs[i]) : i \in DOMAIN seqs} :
                      \A i \in DOMAIN seqs : Len(seqs[i]) <= n
    IN  IF longest % PadToMultipleOf = 0 THEN longest
        ELSE (longest \div PadToMultipleOf + 1) * PadToMultipleOf

\* line 387-388: the rows torch_masked_boolean == mask_token_id can be.  The
\* whole-word masker of the transformers library puts the mask token on any
\* set of ordinary positions, never on special or padded positions.
MaskedRows(ids, width) ==
    {[p \in 1..width |-> p \in chosen] :
        chosen \in SUBSET {p \in 1..Len(ids) : ids[p] \notin AllSpecialIds}}

\* One such row for every prepared sequence of the batch.
MaskedBatches(prepared) ==
    LET width == PaddedLen(prepared)
        rows == UNION {MaskedRows(prepared[i], width) : i \in DOMAIN prepared}
    IN  {batch \in [DOMAIN prepared -> rows] :
            \A i \in DOMAIN prepared : batch[i] \in MaskedRows(prepared[i], width)}

\* Mutant of ForbiddenIds: the original id is not forbidden.
ForbiddenIdsSpecialOnly(original) == AllSpecialIds

\* line 392: forbidden_ids = self.tokenizer.all_special_ids + [original_id]
ForbiddenIds(original) == AllSpecialIds \cup {original}

\* line 393 / 395: random.randint(0, self.tokenizer.vocab_size - 1)
RandInt(size) == 0..(size - 1)

\* Batches of one and of two examples.
ElBatchSizes == {1, 2}

ElInit ==
    /\ el_pc = "prepare"
    /\ vocab_size \in MinVocab..MaxVocab
    /\ \E n \in ElBatchSizes :
         input_ids \in [1..n -> UNION {[1..len -> OrdinaryIds(vocab_size)] :
                                          len \in 0..MaxElLen}]
    /\ prepared_ids = <<>> /\ masked_boolean = <<>> /\ labels = <<>> /\ idx = 0
    /\ fake_input_ids = <<>> /\ original_id = 0 /\ fake_id = 0
    /\ generated_input_ids_seqs = <<>>

\* line 386-389
Prepare ==
    /\ el_pc = "prepare"
    /\ LET prepared == [i \in DOMAIN input_ids |-> PrepareForModel(input_ids[i])]
       IN  /\ input_ids' = prepared
           /\ prepared_ids' = prepared
           /\ \E rows \in MaskedBatches(prepared) :
                /\ masked_boolean' = rows
                /\ labels' = [i \in DOMAIN rows |->
                                [p \in DOMAIN rows[i] |-> Long(rows[i][p])]]
    /\ idx' = 1
    /\ el_pc' = "for"
    /\ UNCHANGED <<vocab_size, fake_input_ids, original_id, fake_id,
                   generated_input_ids_seqs>>
    /\ UNCHANGED <<t5_vars, sop_vars, bart_vars>>

\* line 399-401: the next round of the for loop
StartExample ==
    /\ el_pc = "for" /\ idx <= Len(masked_boolean)
    /\ fake_input_ids' = <<>>
    /\ el_pc' = "while"
    /\ UNCHANGED <<vocab_size, input_ids, prepared_ids, masked_boolean, labels, idx,
                   original_id, fake_id, generated_input_ids_seqs>>
    /\ UNCHANGED <<t5_vars, sop_vars, bart_vars>>

\* line 402-403, 406-407: both lists non-empty, the popped mask is False
PopKeep ==
    /\ el_pc = "while"
    /\ input_ids[idx] # <<>> /\ masked_boolean[idx] # <<>>
    /\ ~Head(masked_boolean[idx])
    /\ fake_input_ids' = Append(fake_input_ids, Head(input_ids[idx]))
    /\ input_ids' = [input_ids EXCEPT ![idx] = Tail(@)]
    /\ masked_boolean' = [masked_boolean EXCEPT ![idx] = Tail(@)]
    /\ UNCHANGED <<el_pc, vocab_size, prepared_ids, labels, idx, original_id, fake_id,
                   generated_input_ids_seqs>>
    /\ UNCHANGED <<t5_vars, sop_vars, bart_vars>>

\* line 402-405, 392-393: the popped mask is True; _fake_input_id is entered
\* and draws its first candidate
PopFake ==
    /\ el_pc = "while"
    /\ input_ids[idx] # <<>> /\ masked_boolean[idx] # <<>>
    /\ Head(masked_boolean[idx])
    /\ original_id' = Head(input_ids[idx])
    /\ fake_id' \in RandInt(vocab_size)
    /\ input_ids' = [input_ids EXCEPT ![idx] = Tail(@)]
    /\ masked_boolean' = [masked_boolean EXCEPT ![idx] = Tail(@)]
    /\ el_pc' = "sampling"
    /\ UNCHANGED <<vocab_size, prepared_ids, labels, idx, fake_input_ids,
                   generated_input_ids_seqs>>
    /\ UNCHANGED <<t5_vars, sop_vars, bart_vars>>

\* line 394-395: the candidate is forbidden, draw again
Resample ==
    /\ el_pc = "sampling"
    /\ fake_id \in ForbiddenIds(original_id)
    /\ fake_id' \in RandInt(vocab_size)
    /\ UNCHANGED <<el_pc, vocab_size, input_ids, prepared_ids, masked_boolean, labels,
                   idx, fake_input_ids, original_id, generated_input_ids_seqs>>
    /\ UNCHANGED <<t5_vars, sop_vars, bart_vars>>

\* line 394, 396, 405: the candidate is accepted, returned and appended
ReturnFake ==
    /\ el_pc = "sampling"
    /\ fake_id \notin ForbiddenIds(original_id)
    /\ fake_input_ids' = Append(fake_input_ids, fake_id)
    /\ el_pc' = "while"
    /\ UNCHANGED <<vocab_size, input_ids, prepared_ids, masked_boolean, labels, idx,
                   original_id, fake_id, generated_input_ids_seqs>>
    /\ UNCHANGED <<t5_vars, sop_vars, bart_vars>>

\* line 402, 409: one of the lists is exhausted
EndExample ==
    /\ el_pc = "while"
    /\ (input_ids[idx] = <<>> \/ masked_boolean[idx] = <<>>)
    /\ generated_input_ids_seqs' = Append(generated_input_ids_seqs, fake_input_ids)
    /\ idx' = idx + 1
    /\ el_pc' = "for"
    /\ UNCHANGED <<vocab_size, input_ids, prepared_ids, masked_boolean, labels,
                   fake_input_ids, original_id, fake_id>>
    /\ UNCHANGED <<t5_vars, sop_vars, bart_vars>>

\* line 411
ElReturn ==
    /\ el_pc = "for" /\ idx > Len(masked_boolean)
    /\ el_pc' = "done"
    /\ UNCHANGED <<vocab_size, input_ids, prepared_ids, masked_boolean, labels, idx,
                   fake_input_ids, original_id, fake_id, generated_input_ids_seqs>>
    /\ UNCHANGED <<t5_vars, sop_vars, bart_vars>>

NextElectra ==
    \/ Prepare \/ StartExample \/ PopKeep \/ PopFake \/ Resample \/ ReturnFake
    \/ EndExample \/ ElReturn
InitElectra == ElInit /\ T5Idle /\ SopIdle /\ BartIdle
SpecElectra == InitElectra /\ [][NextElectra]_vars

\* A resampling draw that is accepted.
AcceptedDraw == Resample /\ fake_id' \notin ForbiddenIds(original_id)

\* The interpreter keeps running the collator, and a fair random source
\* does not avoid the acceptable ids forever.
SpecElectraFair ==
    SpecElectra /\ WF_vars(NextElectra) /\ SF_vars(AcceptedDraw)

\* The ids emitted so far against the prepared sequence and its label row.
FakesRespectLabels(emitted, prepared, row) ==
    \A p \in 1..Len(emitted) :
        /\ p <= Len(prepared)
        /\ row[p] = 1 => (emitted[p] # prepared[p] /\ emitted[p] \notin AllSpecialIds)
        /\ row[p] = 0 => emitted[p] = prepared[p]
        /\ row[p] \in {0, 1}

(***************************************************************************)
(* C6: in the output of _generate_fake_inputs, at every position of an     *)
(* example's prepared sequence, label 1 means the emitted id is neither    *)
(* the original id nor a special id, label 0 means it is the original id;  *)
(* the emitted sequence is as long as the prepared one.                    *)
(***************************************************************************)
C6_FakeInputsRespectLabels ==
    /\ \A i \in DOMAIN generated_input_ids_seqs :
         /\ Len(generated_input_ids_seqs[i]) = Len(prepared_ids[i])
         /\ FakesRespectLabels(generated_input_ids_seqs[i], prepared_ids[i], labels[i])
    /\ el_pc \in {"while", "sampling"} =>
         FakesRespectLabels(fake_input_ids, prepared_ids[idx], labels[idx])

\* A returned batch in which some position was replaced by a fake id.
C6_Witness ==
    /\ el_pc = "done"
    /\ \E i \in DOMAIN generated_input_ids_seqs :
         \E p \in 1..Len(generated_input_ids_seqs[i]) :
            /\ labels[i][p] = 1
            /\ generated_input_ids_seqs[i][p] # prepared_ids[i][p]

\* Every id random.randint can draw is forbidden.
ForbiddenCoversVocab == RandInt(vocab_size) \subseteq ForbiddenIds(original_id)

(***************************************************************************)
(* C7: the rejection sampler always terminates; when the forbidden set     *)
(* covers every id of [0, vocab_size) it ends in a ConfigurationError      *)
(* instead of resampling forever, otherwise it returns an acceptable id.   *)
(***************************************************************************)
C7_SamplerTerminates ==
    /\ [](el_pc = "sampling" => <>(el_pc # "sampling"))
    /\ []((el_pc = "sampling" /\ ForbiddenCoversVocab)
            => <>(el_pc = "ConfigurationError"))

(***************************************************************************)
(* DataCollatorForBart._infilling                                          *)
(***************************************************************************)
\* mlm_probability as exact rationals: 0, the default 0.15, 0.5 and 1.
Probabilities == {<<0, 1>>, <<3, 20>>, <<1, 2>>, <<1, 1>>}

\* Batches of one and of two examples.
BartBatchSizes == {1, 2}

\* line 237: int(source_tokens_ids_length * self.mlm_probability)
MaskingLength(length, prob) == (length * prob[1]) \div prob[2]

\* line 241: int(min(self.poisson_dist.sample().item(), length - 1))
SpanLength(sample, length) == Min(sample, length - 1)

\* line 242: torch.randint(0, high, (1,)): the values it can return (it
\* raises when high <= 0).
RandIntBelow(high) == 0..(high - 1)

\* line 243-247
Infilled(tokens, start, span) ==
    Take(tokens, start) \o <<MaskTokenId>> \o Drop(tokens, start + span)

\* Mutant of TrackedLengthAfter: the mask token that was put in is not counted.
TrackedLengthForgetsMask(length, span) == length - span

\* line 248: source_tokens_ids_length -= span_length - 1
TrackedLengthAfter(length, span) == length - (span - 1)

BartInit ==
    /\ bart_pc = "for"
    /\ \E n \in BartBatchSizes :
         bart_examples \in [1..n -> {Chunk(len) : len \in 0..MaxBartLen}]
    /\ mlm_probability \in Probabilities
    /\ source_tokens_ids = <<>> /\ source_tokens_ids_length = 0
    /\ masking_length = 0 /\ masked_length = 0 /\ span_length = 0
    /\ start_index = 0 /\ prev_tokens_ids = <<>> /\ zero_spans = 0 /\ buffer = <<>>

\* line 234-238
BeginExample ==
    /\ bart_pc = "for" /\ bart_examples # <<>>
    /\ source_tokens_ids' = Head(bart_examples)
    /\ source_tokens_ids_length' = Len(Head(bart_examples))
    /\ masking_length' = MaskingLength(Len(Head(bart_examples)), mlm_probability)
    /\ masked_length' = 0
    /\ bart_examples' = Tail(bart_examples)
    /\ prev_tokens_ids' = <<>>
    /\ zero_spans' = 0
    /\ bart_pc' = "while"
    /\ UNCHANGED <<mlm_probability, span_length, start_index, buffer>>
    /\ UNCHANGED <<t5_vars, sop_vars, el_vars>>

\* line 240-249: one iteration of the while loop
Infill ==
    /\ bart_pc = "while" /\ masked_length < masking_length
    /\ \E sample \in 0..MaxPoisson :
         LET span == SpanLength(sample, source_tokens_ids_length)
             high == source_tokens_ids_length - span
         IN  /\ span = 0 => zero_spans < MaxZeroSpans
             /\ zero_spans' = IF span = 0 THEN zero_spans + 1 ELSE zero_spans
             /\ span_length' = span
             /\ IF RandIntBelow(high) = {}
                THEN /\ bart_pc' = "RuntimeError"
                     /\ UNCHANGED <<start_index, source_tokens_ids, prev_tokens_ids,
                                    source_tokens_ids_length, masked_length>>
                ELSE /\ \E start \in RandIntBelow(high) :
                          /\ start_index' = start
                          /\ source_tokens_ids' = Infilled(source_tokens_ids, start, span)
                     /\ prev_tokens_ids' = source_tokens_ids
                     /\ source_tokens_ids_length' =
                           TrackedLengthAfter(source_tokens_ids_length, span)
                     /\ masked_length' = masked_length + span
                     /\ UNCHANGED bart_pc
    /\ UNCHANGED <<bart_examples, mlm_probability, masking_length, buffer>>
    /\ UNCHANGED <<t5_vars, sop_vars, el_vars>>

\* line 240, 250: the loop ends and the example is buffered
BufferExample ==
    /\ bart_pc = "while" /\ ~(masked_length < masking_length)
    /\ buffer' = Append(buffer, source_tokens_ids)
    /\ bart_pc' = "for"
    /\ UNCHANGED <<bart_examples, mlm_probability, source_tokens_ids,
                   source_tokens_ids_length, masking_length, masked_length,
                   span_length, start_index, prev_tokens_ids, zero_spans>>
    /\ UNCHANGED <<t5_vars, sop_vars, el_vars>>

\* line 251
BartReturn ==
    /\ bart_pc = "for" /\ bart_examples = <<>>
    /\ bart_pc' = "done"
    /\ UNCHANGED <<bart_examples, mlm_probability, source_tokens_ids,
                   source_tokens_ids_length, masking_length, masked_length,
                   span_length, start_index, prev_tokens_ids, zero_spans, buffer>>
    /\ UNCHANGED <<t5_vars, sop_vars, el_vars>>

NextBart == BeginExample \/ Infill \/ BufferExample \/ BartReturn
InitBart == BartInit /\ T5Idle /\ SopIdle /\ ElIdle
SpecBart == InitBart /\ [][NextBart]_vars

(***************************************************************************)
(* C10: text-infilling loop invariant.  After every iteration the tracked  *)
(* length is the length of the working sequence; every start index is      *)
(* drawn from a non-empty range; the span lies inside the sequence short   *)
(* of its last position (start + span_length <= length - 1); the iteration *)
(* replaces exactly span_length consecutive elements by one mask token.    *)
(***************************************************************************)
C10_InfillingLoopInvariant ==
    /\ bart_pc # "RuntimeError"
    /\ bart_pc = "while" =>
         /\ source_tokens_ids_length = Len(source_tokens_ids)
         /\ source_tokens_ids_length >= 1 \/ masking_length = 0
         /\ prev_tokens_ids # <<>> =>
              LET old == Len(prev_tokens_ids)
                  new == Len(source_tokens_ids)
              IN  /\ span_length >= 0 /\ start_index >= 0
                  /\ start_index + span_length <= old - 1
                  /\ new = old + 1 - span_length
                  /\ \A i \in 1..new :
                       source_tokens_ids[i] =
                          IF i <= start_index THEN prev_tokens_ids[i]
                          ELSE IF i = start_index + 1 THEN MaskTokenId
                          ELSE prev_tokens_ids[i + span_length - 1]

\* A second iteration that replaces two elements after the first position.
C10_Witness ==
    /\ bart_pc = "while"
    /\ span_length = 2 /\ start_index = 1
    /\ MaskTokenId \in {prev_tokens_ids[i] : i \in DOMAIN prev_tokens_ids}
    /\ Len(source_tokens_ids) = Len(prev_tokens_ids) - 1

====
